---- MODULE Spec2Model ----
(***************************************************************************)
(* Policy-based authorization of the member resolvers                      *)
(* (src/plugins/nut/graphql/members.rs) and the send-email worker          *)
(* (src/nut/workers.rs) of arche.                                          *)
(***************************************************************************)
EXTENDS Integers, FiniteSets, Sequences, TLC

(***************************************************************************)
(* Bounds                                                                  *)
(***************************************************************************)
MaxDay == 1
MaxPolicies == 1
MaxMembers == 2
MaxInflight == 2
MaxMessages == 2

(***************************************************************************)
(* Value domains                                                           *)
(***************************************************************************)
Users == {1, 2}
Principals == {1}
Anonymous == 0
Days == 0..MaxDay
Admin == "Admin"
Manager == "Manager"
Roles == {Admin, Manager}
None == "None"
caring_NAME == "caring"
ResourceNames == {caring_NAME, "forum"}
Resources == {None} \cup ResourceNames
Forbidden == "Forbidden"
BadRequest == "Bad Request"

VARIABLES
    policies,   \* the policies table: a set of rows (id and timestamps left out)
    today,      \* the current date
    members,    \* the members table: a set of rows
    nextId,     \* the last AUTO_INCREMENT id handed out by the members table
    resp,       \* the last call and what it returned
    earlier,    \* users that an earlier can_view / can_edit call let through
    inflight,   \* resolver calls executing statement by statement
    broker,     \* messages held by the broker
    delivery,   \* the delivery the worker is handling
    io,         \* external I/O performed for the current delivery
    logs,       \* log records emitted for the current delivery
    settled,    \* how each message that left the broker was settled
    store,      \* whether the relational store can be read
    cfg,        \* the configuration the process was started with
    ctx         \* what Context::new returned

vars == <<policies, today, members, nextId, resp, earlier, inflight,
          broker, delivery, io, logs, settled, store, cfg, ctx>>
storeVars == <<policies, today, members, nextId, resp, earlier, inflight,
               store>>
bootVars == <<cfg, ctx>>
workerVars == <<broker, delivery, io, logs, settled>>

(***************************************************************************)
(* policies table and the policy dao                                       *)
(***************************************************************************)
PolicyRows ==
    [user_id : Users, role : Roles, resource : Resources, nbf : Days, exp : Days]

\* the store: readable, or failing every read; what a bool-returning dao does
\* with a failed read is one of: answer false, answer true, panic
StoreUp == [readable |-> TRUE, dao |-> "false"]
DaoOnError == {"false", "true", "panic"}

\* the grants the member resolvers ask about: (Admin, None) and
\* (Manager, caring), and the Admin grant scoped to caring
MemberPolicyRows ==
    {it \in PolicyRows :
        \/ it.role = Admin /\ it.resource \in {None, caring_NAME}
        \/ it.role = Manager /\ it.resource = caring_NAME}

\* Item::enable: the row is active on the given day
enable(it, day) == it.nbf <= day /\ day <= it.exp

\* the rows the dao's filtered SELECT returns
select_policies(db, user, role, rty) ==
    {it \in db : it.user_id = user /\ it.role = role
                 /\ (it.resource = None \/ it.resource = rty)}

RECURSIVE any_enabled(_, _)
any_enabled(rows, day) ==
    IF rows = {} THEN FALSE
    ELSE LET it == CHOOSE r \in rows : TRUE
         IN  IF enable(it, day) THEN TRUE ELSE any_enabled(rows \ {it}, day)

can_any_resource(db, day, user, role, rty) ==
    any_enabled({it \in db : it.user_id = user /\ it.role = role}, day)
\* can returns a bool (members.rs:23 tests it in an if): when the select
\* fails it answers what the dao answers on an error, or it panics
can(db, day, user, role, rty) ==
    IF store.readable
    THEN any_enabled(select_policies(db, user, role, rty), day)
    ELSE store.dao = "true"

is(db, day, user, role) == can(db, day, user, role, None)

(***************************************************************************)
(* members.rs: the guards                                                  *)
(***************************************************************************)
can_view_alternatives == <<[role |-> Admin, rty |-> None],
                           [role |-> Manager, rty |-> caring_NAME]>>

RECURSIVE can_view_from(_, _, _, _)
can_view_from(db, day, user, i) ==
    IF i > Len(can_view_alternatives) THEN Forbidden
    ELSE IF can(db, day, user, can_view_alternatives[i].role,
                can_view_alternatives[i].rty)
         THEN "ok"
         ELSE can_view_from(db, day, user, i + 1)

\* only the first alternative is tried
can_view_admin_only(db, day, user) ==
    IF can(db, day, user, can_view_alternatives[1].role,
           can_view_alternatives[1].rty)
    THEN "ok" ELSE Forbidden

can_view(db, day, user) == can_view_from(db, day, user, 1)

can_edit_scoped(db, day, user) ==
    IF \E rty \in Resources : can(db, day, user, Admin, rty)
    THEN "ok" ELSE Forbidden
can_edit_cached(db, day, user) ==
    IF user \in earlier \/ is(db, day, user, Admin) THEN "ok" ELSE Forbidden
can_edit_ignore_dates(db, day, user) ==
    IF \E it \in db : it.user_id = user /\ it.role = Admin /\ it.resource = None
    THEN "ok" ELSE Forbidden
can_edit(db, day, user) ==
    IF is(db, day, user, Admin) THEN "ok" ELSE Forbidden

(***************************************************************************)
(* Request inputs and their parsing                                        *)
(***************************************************************************)
Digits == <<"0", "1", "2", "3", "4", "5", "6", "7", "8", "9">>
IsDigit(c) == \E i \in 1..Len(Digits) : Digits[i] = c
DigitValue(c) == (CHOOSE i \in 1..Len(Digits) : Digits[i] = c) - 1

\* str::parse::<i64> on an unsigned decimal string
RECURSIVE parse_digits(_, _)
parse_digits(s, acc) ==
    IF s = <<>> THEN acc
    ELSE parse_digits(Tail(s), acc * 10 + DigitValue(Head(s)))
parse_i64(s) ==
    IF s = <<>> \/ \E i \in 1..Len(s) : ~IsDigit(s[i])
    THEN [ok |-> FALSE, val |-> 0]
    ELSE [ok |-> TRUE, val |-> parse_digits(s, 0)]

\* #[validate(length(min = "1"))]
validate_length(s) == Len(s) >= 1

\* NaiveDate::parse_from_str(.., utils::DATE_FORMAT)
DATE_OK == "2000-01-31"
Birthdays == {DATE_OK, "2000-02-31"}
parse_date(s) == s = DATE_OK

IdInputs == {<<>>, <<"x">>, <<"0", "1">>}
            \cup {<<Digits[d + 1]>> : d \in 1..MaxMembers}
NickNames == {<<"a">>, <<"b">>}
RealNames == {<<"x">>, <<"y">>}
Callers == Principals \cup {Anonymous}

\* the requests sent to Create and Update: the well-formed ones, and one
\* request for each way validation can fail
CreateInputs ==
    [nick_name : NickNames, real_name : RealNames, birthday : {DATE_OK}]
    \cup {[nick_name |-> <<>>, real_name |-> <<"x">>, birthday |-> DATE_OK],
          [nick_name |-> <<"a">>, real_name |-> <<>>, birthday |-> DATE_OK],
          [nick_name |-> <<"a">>, real_name |-> <<"x">>,
           birthday |-> "2000-02-31"]}
UpdateInputs ==
    [id : IdInputs, real_name : RealNames, birthday : {DATE_OK}]
    \cup {[id |-> <<"1">>, real_name |-> <<>>, birthday |-> DATE_OK],
          [id |-> <<"1">>, real_name |-> <<"x">>, birthday |-> "2000-02-31"]}

NoResp == [op |-> "none", user |-> Anonymous, role |-> "-", rty |-> "-",
           id |-> 0, result |-> "-", queried |-> FALSE]
Reply(op, user, id, result) ==
    [op |-> op, user |-> user, role |-> "-", rty |-> "-", id |-> id,
     result |-> result, queried |-> FALSE]

(***************************************************************************)
(* Writers of the policies table and the calendar                          *)
(***************************************************************************)
Grant(rows, limit) ==
    /\ Cardinality(policies) < limit
    /\ \E it \in rows \ policies : policies' = policies \cup {it}
    /\ resp' = NoResp
    /\ UNCHANGED <<today, members, nextId, earlier, inflight, store,
                   workerVars, bootVars>>

\* revocation by deleting the row
Revoke ==
    /\ \E it \in policies : policies' = policies \ {it}
    /\ resp' = NoResp
    /\ UNCHANGED <<today, members, nextId, earlier, inflight, store,
                   workerVars, bootVars>>

\* revocation by shrinking expires
Shrink ==
    /\ \E it \in policies : \E e \in Days :
          /\ e < it.exp
          /\ policies' = (policies \ {it}) \cup {[it EXCEPT !.exp = e]}
    /\ resp' = NoResp
    /\ UNCHANGED <<today, members, nextId, earlier, inflight, store,
                   workerVars, bootVars>>

\* the store stops answering reads, and answers them again
StoreFails ==
    /\ store.readable
    /\ \E d \in DaoOnError : store' = [readable |-> FALSE, dao |-> d]
    /\ resp' = NoResp
    /\ UNCHANGED <<policies, today, members, nextId, earlier, inflight,
                   workerVars, bootVars>>

StoreRecovers ==
    /\ ~store.readable
    /\ store' = StoreUp
    /\ resp' = NoResp
    /\ UNCHANGED <<policies, today, members, nextId, earlier, inflight,
                   workerVars, bootVars>>

Tick ==
    /\ today < MaxDay
    /\ today' = today + 1
    /\ resp' = NoResp
    /\ UNCHANGED <<policies, members, nextId, earlier, inflight, store,
                   workerVars, bootVars>>

(***************************************************************************)
(* Calls of the policy dao and of the guards                               *)
(***************************************************************************)
Bool(b) == IF b THEN "true" ELSE "false"

QueryCan ==
    /\ \E user \in Principals, role \in Roles, rty \in Resources :
          resp' = [op |-> "can", user |-> user, role |-> role, rty |-> rty,
                   id |-> 0,
                   result |-> Bool(can(policies, today, user, role, rty)),
                   queried |-> FALSE]
    /\ UNCHANGED <<policies, today, members, nextId, earlier, inflight,
                   store,
                   workerVars, bootVars>>

QueryIs ==
    /\ \E user \in Principals, role \in Roles :
          resp' = [op |-> "is", user |-> user, role |-> role, rty |-> None,
                   id |-> 0,
                   result |-> Bool(is(policies, today, user, role)),
                   queried |-> FALSE]
    /\ UNCHANGED <<policies, today, members, nextId, earlier, inflight,
                   store,
                   workerVars, bootVars>>

\* a panic in the dao unwinds through the guard
Unwound(r) == IF ~store.readable /\ store.dao = "panic" THEN "panic" ELSE r

CallCanView ==
    /\ \E user \in Principals :
          LET r == Unwound(can_view(policies, today, user))
          IN  /\ resp' = Reply("can_view", user, 0, r)
              /\ earlier' = IF r = "ok" THEN earlier \cup {user} ELSE earlier
    /\ UNCHANGED <<policies, today, members, nextId, inflight, store,
                   workerVars, bootVars>>

CallCanEdit ==
    /\ \E user \in Principals :
          LET r == Unwound(can_edit(policies, today, user))
          IN  /\ resp' = Reply("can_edit", user, 0, r)
              /\ earlier' = IF r = "ok" THEN earlier \cup {user} ELSE earlier
    /\ UNCHANGED <<policies, today, members, nextId, inflight, store,
                   workerVars, bootVars>>

(***************************************************************************)
(* members.rs: the resolvers, one call as one step                         *)
(***************************************************************************)
MemberIds == {m.id : m \in members}
WithId(tbl, id) == {m \in tbl : m.id = id}

ShowResult(user, idstr) ==
    IF ~validate_length(idstr) THEN "invalid"
    ELSE IF ~parse_i64(idstr).ok THEN "invalid"
    ELSE IF user = Anonymous THEN "unauthorized"
    ELSE IF can_view(policies, today, user) # "ok" THEN Forbidden
    ELSE IF WithId(members, parse_i64(idstr).val) = {} THEN "not found"
    ELSE "ok"

\* whether the call got as far as the select on members (lines 105-130)
ShowQueried(user, idstr) ==
    IF ~validate_length(idstr) THEN FALSE
    ELSE IF ~parse_i64(idstr).ok THEN FALSE
    ELSE IF user = Anonymous THEN FALSE
    ELSE IF can_view(policies, today, user) # "ok" THEN FALSE
    ELSE TRUE

Show ==
    /\ \E user \in Callers, idstr \in IdInputs :
          resp' = [Reply("show", user, parse_i64(idstr).val,
                         ShowResult(user, idstr))
                   EXCEPT !.queried = ShowQueried(user, idstr)]
    /\ UNCHANGED <<policies, today, members, nextId, earlier, inflight,
                   store,
                   workerVars, bootVars>>

ListResult(user) ==
    IF user = Anonymous THEN "unauthorized"
    ELSE IF can_view(policies, today, user) # "ok" THEN Forbidden
    ELSE "ok"

\* whether the call got as far as the select on members (lines 155-225)
ListQueried(user) ==
    IF user = Anonymous THEN FALSE
    ELSE IF can_view(policies, today, user) # "ok" THEN FALSE
    ELSE TRUE

List ==
    /\ \E user \in Callers :
          resp' = [Reply("list", user, 0, ListResult(user))
                   EXCEPT !.queried = ListQueried(user)]
    /\ UNCHANGED <<policies, today, members, nextId, earlier, inflight,
                   store,
                   workerVars, bootVars>>

RemoveResult(user, idstr) ==
    IF ~validate_length(idstr) THEN "invalid"
    ELSE IF ~parse_i64(idstr).ok THEN "invalid"
    ELSE IF user = Anonymous THEN "unauthorized"
    ELSE IF can_edit(policies, today, user) # "ok" THEN Forbidden
    ELSE "ok"

Remove ==
    /\ \E user \in Callers, idstr \in IdInputs :
          LET r == RemoveResult(user, idstr)
              id == parse_i64(idstr).val
          IN  /\ resp' = Reply("remove", user, id, r)
              /\ members' = IF r = "ok" THEN members \ WithId(members, id)
                            ELSE members
    /\ UNCHANGED <<policies, today, nextId, earlier, inflight, store,
                   workerVars, bootVars>>

\* Create::call up to and including can_edit
CreateGuard(user, nick, real, birthday) ==
    IF ~validate_length(nick) \/ ~validate_length(real) THEN "invalid"
    ELSE IF ~parse_date(birthday) THEN "invalid"
    ELSE IF user = Anonymous THEN "unauthorized"
    ELSE IF can_edit(policies, today, user) # "ok" THEN Forbidden
    ELSE "ok"

\* the count of rows with the nick_name, and the early return on cnt > 0
CreateCount(nick) ==
    IF Cardinality({m \in members : m.nick_name = nick}) > 0
    THEN BadRequest ELSE "ok"

CreateResult(user, nick, real, birthday) ==
    IF CreateGuard(user, nick, real, birthday) # "ok"
    THEN CreateGuard(user, nick, real, birthday)
    ELSE CreateCount(nick)

insert_member(tbl, id, nick, real) ==
    tbl \cup {[id |-> id, nick_name |-> nick, real_name |-> real]}

Create ==
    /\ \E user \in Callers, form \in CreateInputs :
          LET nick == form.nick_name
              real == form.real_name
              r == CreateResult(user, nick, real, form.birthday)
          IN  /\ r = "ok" => nextId < MaxMembers
              /\ resp' = Reply("create", user, IF r = "ok" THEN nextId + 1 ELSE 0, r)
              /\ members' = IF r = "ok"
                            THEN insert_member(members, nextId + 1, nick, real)
                            ELSE members
              /\ nextId' = IF r = "ok" THEN nextId + 1 ELSE nextId
    /\ UNCHANGED <<policies, today, earlier, inflight, store,
                   workerVars, bootVars>>

UpdateResult(idstr, real, birthday) ==
    IF ~validate_length(idstr) \/ ~validate_length(real) THEN "invalid"
    ELSE IF ~parse_date(birthday) THEN "invalid"
    ELSE IF ~parse_i64(idstr).ok THEN "invalid"
    ELSE "ok"

update_members(tbl, id, real) ==
    {IF m.id = id THEN [m EXCEPT !.real_name = real] ELSE m : m \in tbl}

Update ==
    /\ \E user \in Callers, form \in UpdateInputs :
          LET idstr == form.id
              real == form.real_name
              r == UpdateResult(idstr, real, form.birthday)
              id == parse_i64(idstr).val
          IN  /\ resp' = Reply("update", user, id, r)
              /\ members' = IF r = "ok" THEN update_members(members, id, real)
                            ELSE members
    /\ UNCHANGED <<policies, today, nextId, earlier, inflight, store,
                   workerVars, bootVars>>

(***************************************************************************)
(* members.rs: Remove::call and Create::call statement by statement, as    *)
(* they run against a store that other sessions write in between          *)
(***************************************************************************)
IdleCall == [op |-> "none", user |-> Anonymous, id |-> 0, nick_name |-> <<>>,
             real_name |-> <<>>, pc |-> "idle"]
Slots == 1..MaxInflight

\* validate .. can_edit(db, &user.id)?
RemoveBegin ==
    /\ \E s \in Slots, user \in Callers, idstr \in IdInputs :
          LET r == RemoveResult(user, idstr)
              id == parse_i64(idstr).val
          IN  /\ inflight[s].pc = "idle"
              /\ IF r = "ok"
                 THEN /\ inflight' = [inflight EXCEPT ![s] =
                                        [IdleCall EXCEPT !.op = "remove",
                                                         !.user = user,
                                                         !.id = id,
                                                         !.pc = "authorized"]]
                      /\ resp' = NoResp
                 ELSE /\ inflight' = inflight
                      /\ resp' = Reply("remove", user, id, r)
    /\ UNCHANGED <<policies, today, members, nextId, earlier, store,
                   workerVars, bootVars>>

\* delete(it).execute(db)?; Ok(H::new())
RemoveDelete ==
    /\ \E s \in Slots :
          /\ inflight[s].op = "remove"
          /\ inflight[s].pc = "authorized"
          /\ members' = members \ WithId(members, inflight[s].id)
          /\ resp' = Reply("remove", inflight[s].user, inflight[s].id, "ok")
          /\ inflight' = [inflight EXCEPT ![s] = IdleCall]
    /\ UNCHANGED <<policies, today, nextId, earlier, store,
                   workerVars, bootVars>>

\* validate .. can_edit(db, &user.id)?
CreateBegin ==
    /\ \E s \in Slots, user \in Callers, form \in CreateInputs :
          LET r == CreateGuard(user, form.nick_name, form.real_name,
                               form.birthday)
          IN  /\ inflight[s].pc = "idle"
              /\ IF r = "ok"
                 THEN /\ inflight' = [inflight EXCEPT ![s] =
                                        [IdleCall EXCEPT
                                            !.op = "create",
                                            !.user = user,
                                            !.nick_name = form.nick_name,
                                            !.real_name = form.real_name,
                                            !.pc = "authorized"]]
                      /\ resp' = NoResp
                 ELSE /\ inflight' = inflight
                      /\ resp' = Reply("create", user, 0, r)
    /\ UNCHANGED <<policies, today, members, nextId, earlier, store,
                   workerVars, bootVars>>

\* the count query and the early return
CreateCounted ==
    /\ \E s \in Slots :
          /\ inflight[s].op = "create"
          /\ inflight[s].pc = "authorized"
          /\ IF CreateCount(inflight[s].nick_name) = "ok"
             THEN /\ inflight' = [inflight EXCEPT ![s].pc = "counted"]
                  /\ resp' = NoResp
             ELSE /\ inflight' = [inflight EXCEPT ![s] = IdleCall]
                  /\ resp' = Reply("create", inflight[s].user, 0, BadRequest)
    /\ UNCHANGED <<policies, today, members, nextId, earlier, store,
                   workerVars, bootVars>>

\* insert_into(members).values(..).execute(db)?; Ok(H::new())
CreateInsert ==
    /\ \E s \in Slots :
          /\ inflight[s].op = "create"
          /\ inflight[s].pc = "counted"
          /\ nextId < MaxMembers
          /\ members' = insert_member(members, nextId + 1,
                                      inflight[s].nick_name,
                                      inflight[s].real_name)
          /\ nextId' = nextId + 1
          /\ resp' = Reply("create", inflight[s].user, nextId + 1, "ok")
          /\ inflight' = [inflight EXCEPT ![s] = IdleCall]
    /\ UNCHANGED <<policies, today, earlier, store,
                   workerVars, bootVars>>

(***************************************************************************)
(* workers.rs: the send-email job                                          *)
(***************************************************************************)
SEND_EMAIL == "send-email"
EmailFields == {"to", "subject", "body", "attachments"}
NoEmail == [to |-> "", subject |-> "", body |-> "", attachments |-> {}]

\* payloads: a byte sequence is JSON or not; a JSON object has some fields
Payload(json, fields, to, subject, attachments) ==
    [json |-> json, fields |-> fields, to |-> to, subject |-> subject,
     body |-> "<p>Hi</p>", attachments |-> attachments]
Payloads ==
    {Payload(TRUE, EmailFields, "a@example.com", "Hi", {}),
     Payload(TRUE, EmailFields, "b@example.com", "Report", {"/tmp/report.txt"}),
     Payload(TRUE, EmailFields \ {"to"}, "", "Hi", {}),
     Payload(FALSE, {}, "", "", {})}

\* serde_json::from_slice::<Email>(payload)
from_slice_lenient(payload) ==
    [ok |-> payload.json,
     val |-> [to |-> payload.to, subject |-> payload.subject,
              body |-> payload.body, attachments |-> payload.attachments]]
from_slice(payload) ==
    IF payload.json /\ EmailFields \subseteq payload.fields
    THEN [ok |-> TRUE,
          val |-> [to |-> payload.to, subject |-> payload.subject,
                   body |-> payload.body, attachments |-> payload.attachments]]
    ELSE [ok |-> FALSE, val |-> NoEmail]

\* the step of send_email that fails in this execution, if any
Faults == {"none", "setting", "attachment", "build", "transport", "hostname",
           "connect", "send"}

Outcome(result, ios, records) == [result |-> result, io |-> ios, logs |-> records]
DebugRecord(it) ==
    [level |-> "debug", to |-> it.to, subject |-> it.subject, body |-> it.body]

\* for (file, name) in it.attachments { email.set_attachment(..)? }
RECURSIVE read_attachments(_)
read_attachments(files) ==
    IF files = {} THEN <<>>
    ELSE LET f == CHOOSE x \in files : TRUE
         IN  <<"file_read">> \o read_attachments(files \ {f})

\* the attachment is unwrapped instead of propagated
perform_send_unwrap(it, fault) ==
    LET io1 == <<"setting_read">>
        io2 == io1 \o read_attachments(it.attachments)
        io3 == io2 \o <<"resolve_host">>
        io4 == io3 \o <<"smtp_connect">>
        io5 == io4 \o <<"smtp_send">>
    IN  IF fault = "setting" THEN Outcome("Err(setting)", io1, {})
        ELSE IF fault = "attachment" /\ it.attachments # {}
             THEN Outcome("panic", io2, {})
        ELSE IF fault = "build" THEN Outcome("Err(build)", io2, {})
        ELSE IF fault = "transport" THEN Outcome("Err(transport)", io3, {})
        ELSE IF fault = "hostname" THEN Outcome("Err(hostname)", io3, {})
        ELSE IF fault = "connect" THEN Outcome("Err(smtp)", io4, {})
        ELSE IF fault = "send" THEN Outcome("Err(smtp)", io4, {})
        ELSE Outcome("Ok", io5, {})

\* send_email after the payload is decoded, in perform mode
perform_send(it, fault) ==
    LET io1 == <<"setting_read">>
        io2 == io1 \o read_attachments(it.attachments)
        io3 == io2 \o <<"resolve_host">>
        io4 == io3 \o <<"smtp_connect">>
        io5 == io4 \o <<"smtp_send">>
    IN  IF fault = "setting" THEN Outcome("Err(setting)", io1, {})
        ELSE IF fault = "attachment" /\ it.attachments # {}
             THEN Outcome("Err(attachment)", io2, {})
        ELSE IF fault = "build" THEN Outcome("Err(build)", io2, {})
        ELSE IF fault = "transport" THEN Outcome("Err(transport)", io3, {})
        ELSE IF fault = "hostname" THEN Outcome("Err(hostname)", io3, {})
        ELSE IF fault = "connect" THEN Outcome("Err(smtp)", io4, {})
        ELSE IF fault = "send" THEN Outcome("Err(smtp)", io4, {})
        ELSE Outcome("Ok", io5, {})

\* send_email after the payload is decoded
execute_perform_first(it, perform, fault) ==
    IF fault = "setting" THEN Outcome("Err(setting)", <<"setting_read">>, {})
    ELSE IF ~perform
         THEN Outcome("Ok", <<"setting_read">>, {DebugRecord(it)})
         ELSE perform_send(it, fault)
execute_ignore_send_error(it, perform, fault) ==
    IF ~perform THEN Outcome("Ok", <<>>, {DebugRecord(it)})
    ELSE IF fault \in {"connect", "send"}
         THEN Outcome("Ok", perform_send(it, fault).io, {})
         ELSE perform_send(it, fault)
execute(it, perform, fault) ==
    IF ~perform THEN Outcome("Ok", <<>>, {DebugRecord(it)})
    ELSE perform_send(it, fault)

send_email(payload, perform, fault) ==
    IF ~from_slice(payload).ok THEN Outcome("Err(decode)", <<>>, {})
    ELSE execute(from_slice(payload).val, perform, fault)

(***************************************************************************)
(* The queue and the dispatcher around send_email                          *)
(***************************************************************************)
IdleDelivery ==
    [state |-> "Idle", tag |-> 0, payload |-> Payload(FALSE, {}, "", "", {}),
     redelivered |-> FALSE, perform |-> FALSE, email |-> NoEmail,
     fault |-> "none", result |-> "-"]
Terminal == {"Acked", "Nacked-Requeued", "Nacked-Dropped"}
Enqueued == Cardinality(broker) + Cardinality(settled)
Message(d) == [tag |-> d.tag, kind |-> SEND_EMAIL, payload |-> d.payload,
               redelivered |-> d.redelivered]
Settlement(d, how, ios) ==
    [tag |-> d.tag, payload |-> d.payload, how |-> how, result |-> d.result,
     perform |-> d.perform, io |-> ios]

\* enqueue(queue_name, job_kind, payload)
Enqueue ==
    /\ Enqueued < MaxMessages
    /\ \E payload \in Payloads :
          broker' = broker \cup {[tag |-> Enqueued + 1, kind |-> SEND_EMAIL,
                                  payload |-> payload, redelivered |-> FALSE]}
    /\ UNCHANGED <<storeVars, bootVars, delivery, io, logs, settled>>

\* Received: the broker hands a message to the worker
Receive ==
    /\ delivery.state = "Idle"
    /\ \E m \in broker, perform \in BOOLEAN :
          delivery' = [IdleDelivery EXCEPT !.state = "Received",
                                           !.tag = m.tag,
                                           !.payload = m.payload,
                                           !.redelivered = m.redelivered,
                                           !.perform = perform]
    /\ io' = <<>>
    /\ logs' = {}
    /\ UNCHANGED <<storeVars, bootVars, broker, settled>>

\* Decoding: send_email is entered with the payload
BeginDecode ==
    /\ delivery.state = "Received"
    /\ delivery' = [delivery EXCEPT !.state = "Decoding"]
    /\ UNCHANGED <<storeVars, bootVars, broker, io, logs, settled>>

\* workers.rs line 44; an undecodable payload is logged and discarded
Decode ==
    /\ delivery.state = "Decoding"
    /\ LET d == from_slice(delivery.payload)
       IN  IF d.ok
           THEN /\ delivery' = [delivery EXCEPT !.state = "Executing",
                                                !.email = d.val]
                /\ UNCHANGED <<broker, logs, settled>>
           ELSE LET done == [delivery EXCEPT
                                !.state = "Nacked-Dropped",
                                !.result = send_email(delivery.payload,
                                                      delivery.perform,
                                                      "none").result]
                IN  /\ delivery' = done
                    /\ broker' = broker \ {Message(delivery)}
                    /\ logs' = logs \cup {[level |-> "error", to |-> "",
                                            subject |-> "", body |-> ""]}
                    /\ settled' = settled
                                   \cup {Settlement(done, "dropped", io)}
    /\ UNCHANGED <<storeVars, bootVars, io>>

\* Executing is abandoned half-way and the worker turns to the next message
Execute_cancellable ==
    /\ delivery.state = "Executing"
    /\ delivery' = IdleDelivery
    /\ io' = <<>>
    /\ logs' = {}
    /\ UNCHANGED <<storeVars, bootVars, broker, settled>>

\* Executing: workers.rs lines 45-73, then the acknowledgement: Ok is acked, an
\* SMTP failure is requeued, any other failure is requeued or dropped
Execute ==
    /\ delivery.state = "Executing"
    /\ \E fault \in Faults, requeue \in BOOLEAN :
          LET r == execute(delivery.email, delivery.perform, fault)
              how == IF r.result = "Ok" THEN "Acked"
                     ELSE IF r.result = "Err(smtp)" \/ requeue
                          THEN "Nacked-Requeued"
                          ELSE "Nacked-Dropped"
              done == [delivery EXCEPT !.state = how, !.fault = fault,
                                       !.result = r.result]
          IN  /\ delivery.perform \/ fault = "none"
              /\ delivery' = done
              /\ io' = io \o r.io
              /\ logs' = logs \cup r.logs
              /\ broker' = IF how = "Nacked-Requeued"
                           THEN (broker \ {Message(delivery)})
                                \cup {[Message(delivery) EXCEPT
                                          !.redelivered = TRUE]}
                           ELSE broker \ {Message(delivery)}
              /\ settled' = IF how = "Nacked-Requeued" THEN settled
                            ELSE settled
                                 \cup {Settlement(done,
                                                  IF how = "Acked" THEN "acked"
                                                  ELSE "dropped", io \o r.io)}
    /\ UNCHANGED <<storeVars, bootVars>>

\* the worker takes the next message
Finish ==
    /\ delivery.state \in Terminal
    /\ delivery' = IdleDelivery
    /\ io' = <<>>
    /\ logs' = {}
    /\ UNCHANGED <<storeVars, bootVars, broker, settled>>

(***************************************************************************)
(* Start-up: env.rs Config and context.rs Context::new                     *)
(***************************************************************************)
B64Table ==
    <<"A","B","C","D","E","F","G","H","I","J","K","L","M","N","O","P",
      "Q","R","S","T","U","V","W","X","Y","Z","a","b","c","d","e","f",
      "g","h","i","j","k","l","m","n","o","p","q","r","s","t","u","v",
      "w","x","y","z","0","1","2","3","4","5","6","7","8","9","+","/">>
B64Chars == {B64Table[i] : i \in 1..Len(B64Table)}
B64Index(c) == (CHOOSE i \in 1..Len(B64Table) : B64Table[i] = c) - 1

\* base64::decode: [ok, bytes]
base64_decode(s) ==
    LET n == Len(s)
        pad == IF n >= 2 /\ s[n] = "=" /\ s[n - 1] = "=" THEN 2
               ELSE IF n >= 1 /\ s[n] = "=" THEN 1 ELSE 0
        m == n - pad
        wellFormed == /\ \A i \in 1..m : s[i] \in B64Chars
                      /\ m % 4 # 1
                      /\ pad > 0 => (n % 4 = 0)
        sx(i) == IF i <= m THEN B64Index(s[i]) ELSE 0
        byte(j) == LET a == (8 * j) \div 6
                       o == (8 * j) % 6
                       v == sx(a + 1) * 64 + sx(a + 2)
                   IN  (v \div (2 ^ (4 - o))) % 256
    IN  IF wellFormed
        THEN [ok |-> TRUE, bytes |-> [j \in 1..((m * 6) \div 8) |-> byte(j - 1)]]
        ELSE [ok |-> FALSE, bytes |-> <<>>]

\* Config::secret_key
secret_key(c) == base64_decode(c.secret_key)

\* the key length the encryptor takes
KEYBYTES == 32
\* Sodium::new
Sodium_new(bytes) == IF Len(bytes) = KEYBYTES THEN "Sodium" ELSE "Err"

Rep(c, n) == [i \in 1..n |-> c]
KeyGood == Rep("A", 42) \o <<"E", "=">>
KeyLong == Rep("A", 44)
KeyShort == <<"Q", "Q", "=", "=">>
KeyBadChar == Rep("A", 42) \o <<"*", "=">>
KeyBadLength == Rep("A", 41)
SecretKeys == {KeyGood, KeyLong, KeyShort, KeyBadChar, KeyBadLength}

\* an Option<provider> of the configuration: absent, present and reachable,
\* present with a server that cannot be reached
Providers == {"None", "Some", "SomeDown"}
Configs ==
    [postgresql : Providers, redis : Providers, rabbitmq : {"None", "Some"},
     secret_key : SecretKeys]
DefaultConfig ==
    [postgresql |-> "Some", redis |-> "Some", rabbitmq |-> "Some",
     secret_key |-> KeyGood]

\* c.pool()
pool(c) == IF c = "Some" THEN "Pool" ELSE "Err"

\* the queue handle is made without looking at the provider
open_queue_lazy(q) == IF q = "None" THEN "Unconfigured" ELSE "RabbitMq"

open_database(db) ==
    IF db # "None"
    THEN IF pool(db) = "Err" THEN "Err" ELSE "PostgreSql"
    ELSE "Err"
open_cache(ch) ==
    IF ch # "None"
    THEN IF pool(ch) = "Err" THEN "Err" ELSE "Redis"
    ELSE "Err"
open_queue(q) == IF q # "None" THEN "RabbitMq" ELSE "Err"

CtxParts == {"repository", "cache", "queue", "security", "jwt"}
NoContext(status, err) ==
    [status |-> status, err |-> err, repository |-> "-", cache |-> "-",
     queue |-> "-", security |-> "-", jwt |-> "-"]
Unbuilt == NoContext("Unbuilt", "-")

\* Context::new: the fields are evaluated in order and the first Err returns
Context_new(c) ==
    LET repository == open_database(c.postgresql)
        cache == open_cache(c.redis)
        queue == open_queue(c.rabbitmq)
        key == secret_key(c)
        security == Sodium_new(key.bytes)
    IN  IF repository = "Err" THEN NoContext("Err", "database")
        ELSE IF cache = "Err" THEN NoContext("Err", "cache")
        ELSE IF queue = "Err" THEN NoContext("Err", "queue")
        ELSE IF ~key.ok THEN NoContext("Err", "base64")
        ELSE IF security = "Err" THEN NoContext("Err", "security")
        ELSE [status |-> "Ok", err |-> "-", repository |-> repository,
              cache |-> cache, queue |-> queue, security |-> security,
              jwt |-> "Jwt"]

\* the process starts: Context::new(&cfg)
Boot ==
    /\ ctx.status = "Unbuilt"
    /\ ctx' = Context_new(cfg)
    /\ resp' = NoResp
    /\ UNCHANGED <<policies, today, members, nextId, earlier, inflight, store,
                   workerVars, cfg>>

\* a request takes one of the handles of the context that was built
UseContext ==
    /\ ctx.status = "Ok"
    /\ \E part \in CtxParts, u \in Callers :
        resp' = Reply(part, u, 0,
                      IF ctx[part] \in {"PostgreSql", "Redis", "RabbitMq",
                                        "Sodium", "Jwt"}
                      THEN "ok" ELSE "configuration error")
    /\ UNCHANGED <<policies, today, members, nextId, earlier, inflight, store,
                   workerVars, bootVars>>

(***************************************************************************)
(* Specifications                                                          *)
(***************************************************************************)
Init ==
    /\ policies = {}
    /\ today = 0
    /\ members = {}
    /\ nextId = 0
    /\ resp = NoResp
    /\ earlier = {}
    /\ inflight = [s \in 1..MaxInflight |-> IdleCall]
    /\ broker = {}
    /\ delivery = IdleDelivery
    /\ io = <<>>
    /\ logs = {}
    /\ settled = {}
    /\ store = StoreUp
    /\ cfg = DefaultConfig
    /\ ctx = Context_new(cfg)

\* the state before the process has built its context, for every configuration
InitBoot ==
    /\ policies = {}
    /\ today = 0
    /\ members = {}
    /\ nextId = 0
    /\ resp = NoResp
    /\ earlier = {}
    /\ inflight = [s \in 1..MaxInflight |-> IdleCall]
    /\ broker = {}
    /\ delivery = IdleDelivery
    /\ io = <<>>
    /\ logs = {}
    /\ settled = {}
    /\ store = StoreUp
    /\ cfg \in Configs
    /\ ctx = Unbuilt

GrantPolicy == Grant(PolicyRows, MaxPolicies)
GrantMemberPolicy == Grant(MemberPolicyRows, MaxPolicies)

\* the policy engine on its own
PolicyNext ==
    \/ GrantPolicy
    \/ Revoke
    \/ Shrink
    \/ Tick
    \/ QueryCan
    \/ QueryIs
    \/ CallCanView
    \/ CallCanEdit
SpecPolicy == Init /\ [][PolicyNext]_vars

\* the member resolvers
Next ==
    \/ GrantMemberPolicy
    \/ Revoke
    \/ Shrink
    \/ Tick
    \/ Show
    \/ List
    \/ Remove
    \/ Create
    \/ Update
Spec == Init /\ [][Next]_vars

\* the member mutations interleaved with writers of the policies table
ConcNext ==
    \/ GrantMemberPolicy
    \/ Revoke
    \/ Shrink
    \/ RemoveBegin
    \/ RemoveDelete
    \/ CreateBegin
    \/ CreateCounted
    \/ CreateInsert
SpecConc == Init /\ [][ConcNext]_vars

\* the guards while the store may fail
OutageNext ==
    \/ GrantPolicy
    \/ Revoke
    \/ StoreFails
    \/ StoreRecovers
    \/ CallCanView
    \/ CallCanEdit
SpecOutage == Init /\ [][OutageNext]_vars

\* the queue and one worker
WorkerNext ==
    \/ Enqueue
    \/ Receive
    \/ BeginDecode
    \/ Decode
    \/ Execute
    \/ Finish
SpecWorker == Init /\ [][WorkerNext]_vars

\* the worker thread runs one delivery from receipt to settlement without
\* being descheduled for ever: each step of a delivery is eventually taken
SpecWorkerFair ==
    /\ SpecWorker
    /\ WF_vars(BeginDecode)
    /\ WF_vars(Decode)
    /\ WF_vars(Execute)

(***************************************************************************)
(* Claims: the policy engine                                               *)
(***************************************************************************)
Active(it) == it.nbf <= today /\ today <= it.exp
Lapsed(it) == it.exp < today \/ it.nbf > today
RowsOf(P, R) == {it \in policies : it.user_id = P /\ it.role = R}

\* C1: can(P, R, T) is true exactly when the table holds a row of P with
\* role R, with not_before <= today <= expires, and with resource_type None
\* or equal to T; a can call returns that value.
C1_CanIffActiveMatchingRow ==
    /\ \A P \in Users, R \in Roles, T \in Resources :
          can(policies, today, P, R, T)
          <=> \E it \in policies :
                 /\ it.user_id = P
                 /\ it.role = R
                 /\ it.nbf <= today /\ today <= it.exp
                 /\ (it.resource = None \/ it.resource = T)
    /\ resp.op = "can" =>
          (resp.result = "true"
           <=> \E it \in RowsOf(resp.user, resp.role) :
                  Active(it) /\ it.resource \in {None, resp.rty})

\* a can call answered true from a row scoped to the resource asked about
C1_Witness ==
    /\ resp.op = "can"
    /\ resp.result = "true"
    /\ resp.rty # None
    /\ RowsOf(resp.user, resp.role) # {}
    /\ \A it \in RowsOf(resp.user, resp.role) :
          Active(it) /\ it.resource = resp.rty

\* C2: when every row of P with role R is expired or future-dated, can(P, R, T)
\* for every T and is(P, R) are false; can_view and can_edit reject a
\* principal whose only grants are expired or future-dated.
C2_LapsedGrantsDenied ==
    /\ \A P \in Users, R \in Roles :
          (\A it \in RowsOf(P, R) : Lapsed(it))
          => /\ \A T \in Resources : ~can(policies, today, P, R, T)
             /\ ~is(policies, today, P, R)
    /\ \A P \in Users :
          (\A it \in policies : it.user_id = P => Lapsed(it))
          => /\ can_view(policies, today, P) = Forbidden
             /\ can_edit(policies, today, P) = Forbidden
    /\ (/\ resp.op \in {"can_view", "can_edit"}
        /\ \A it \in policies : it.user_id = resp.user => Lapsed(it))
       => resp.result = Forbidden

\* can_edit rejected a principal who holds a global Admin row that expired
C2_Witness ==
    /\ resp.op = "can_edit"
    /\ resp.result = Forbidden
    /\ \E it \in RowsOf(resp.user, Admin) :
          it.resource = None /\ it.nbf <= it.exp /\ it.exp < today

\* C3: when every active row of P with role R has a resource_type other than
\* None, is(P, R) and can(P, R, None) are false; can_edit denies a principal
\* who is Admin only for a named resource domain.
C3_ScopedGrantNotGlobal ==
    /\ \A P \in Users, R \in Roles :
          (\A it \in RowsOf(P, R) : Active(it) => it.resource # None)
          => /\ ~is(policies, today, P, R)
             /\ ~can(policies, today, P, R, None)
    /\ \A P \in Users :
          (\A it \in RowsOf(P, Admin) : Active(it) => it.resource # None)
          => can_edit(policies, today, P) = Forbidden
    /\ (/\ resp.op = "can_edit"
        /\ \A it \in RowsOf(resp.user, Admin) : Active(it) => it.resource # None)
       => resp.result = Forbidden

\* can_edit rejected a principal holding an active Admin row scoped to a domain
C3_Witness ==
    /\ resp.op = "can_edit"
    /\ resp.result = Forbidden
    /\ \E it \in RowsOf(resp.user, Admin) : Active(it) /\ it.resource # None

(***************************************************************************)
(* Claims: the member resolvers                                            *)
(***************************************************************************)
HoldsGlobalAdmin(P) ==
    \E it \in RowsOf(P, Admin) : Active(it) /\ it.resource = None

\* C4: a step of Create, Update or Remove changes the members table only if
\* the calling principal holds an active global Admin policy at the time of
\* the call; a principal without one gets Forbidden and the table is
\* unchanged.
C4_MutationsNeedGlobalAdmin ==
    [][resp'.op \in {"create", "update", "remove"}
       => /\ members' # members => HoldsGlobalAdmin(resp'.user)
          /\ (resp'.user \in Users /\ ~HoldsGlobalAdmin(resp'.user)
              /\ resp'.result \notin {"invalid"})
             => resp'.result = Forbidden /\ members' = members]_vars

\* C5: Remove::call of a well-formed request by a principal with an active
\* global Admin row removes the member row with the given id and returns
\* success; by a principal whose only Admin row is expired it returns
\* Forbidden and leaves the members table as it was.
OnlyExpiredAdmin(P) ==
    /\ RowsOf(P, Admin) # {}
    /\ \A it \in RowsOf(P, Admin) : it.exp < today
C5_RemoveByAdminOrExpired ==
    [][(resp'.op = "remove" /\ resp'.result \notin {"invalid", "unauthorized"})
       => /\ HoldsGlobalAdmin(resp'.user)
             => /\ resp'.result = "ok"
                /\ members' = {m \in members : m.id # resp'.id}
          /\ OnlyExpiredAdmin(resp'.user)
             => /\ resp'.result = Forbidden
                /\ members' = members]_vars

\* Remove::call succeeded: the row it named is gone, another row is still there
C5_Witness ==
    /\ resp.op = "remove"
    /\ resp.result = "ok"
    /\ resp.id \in 1..nextId
    /\ resp.id \notin MemberIds
    /\ members # {}
    /\ HoldsGlobalAdmin(resp.user)

\* C6: every can_view / can_edit call is decided from the policy table as it
\* is at the call, whatever earlier calls returned: after a revocation the
\* next call is decided from the new content.
LiveDecision(op, P) ==
    IF \/ HoldsGlobalAdmin(P)
       \/ /\ op = "can_view"
          /\ \E it \in RowsOf(P, Manager) :
                Active(it) /\ it.resource \in {None, caring_NAME}
    THEN "ok" ELSE Forbidden
C6_DecidedFromLiveTable ==
    [][resp'.op \in {"can_view", "can_edit"}
       => /\ policies' = policies
          /\ today' = today
          /\ resp'.result = LiveDecision(resp'.op, resp'.user)]_vars

\* a principal an earlier call let through is rejected by can_edit once no
\* active global Admin row is left
C6_Witness ==
    /\ resp.op = "can_edit"
    /\ resp.user \in earlier
    /\ resp.result = Forbidden
    /\ ~HoldsGlobalAdmin(resp.user)

\* C7: in Remove::call and Create::call the check and the write are one atomic
\* scope: no write is applied for a principal whose Admin policy was revoked
\* after the check passed.
C7_CheckAndWriteAtomic ==
    [][(resp'.op \in {"create", "remove"} /\ resp'.result = "ok")
       => HoldsGlobalAdmin(resp'.user)]_vars

(***************************************************************************)
(* Claims: the send-email worker                                           *)
(***************************************************************************)
Decodable(payload) ==
    /\ payload.json
    /\ \A f \in {"to", "subject", "body", "attachments"} : f \in payload.fields
Count(seq, e) == Cardinality({i \in 1..Len(seq) : seq[i] = e})

\* C8: with perform = false, send_email on a decodable payload does no
\* external I/O (no Setting read, no attachment read, no SMTP connection),
\* emits a log record with the recipient and the subject, and returns success,
\* so the message is acknowledged.
C8_DryRunNoIO ==
    /\ ~delivery.perform => io = <<>>
    /\ (/\ delivery.state \in Terminal
        /\ ~delivery.perform
        /\ Decodable(delivery.payload))
       => /\ delivery.result = "Ok"
          /\ delivery.state = "Acked"
          /\ \E rec \in logs : /\ rec.to = delivery.payload.to
                               /\ rec.subject = delivery.payload.subject
          /\ \A m \in broker : m.tag # delivery.tag

\* a dry run of a job with an attachment was acknowledged
C8_Witness ==
    /\ delivery.state = "Acked"
    /\ ~delivery.perform
    /\ delivery.payload.attachments # {}
    /\ logs # {}
    /\ io = <<>>

\* C9: an undecodable payload goes from Decoding directly to Nacked-Dropped in
\* either mode: it is logged, leaves the broker for good, no I/O is performed
\* for it, and the worker goes on to the next message.
C9_PoisonDropped ==
    [][/\ (/\ delivery.state = "Decoding"
           /\ ~Decodable(delivery.payload)
           /\ delivery' # delivery)
          => /\ delivery'.state = "Nacked-Dropped"
             /\ delivery'.tag = delivery.tag
             /\ io' = <<>>
             /\ \E rec \in logs' : rec.level = "error"
             /\ \A m \in broker' : m.tag # delivery.tag
       /\ \A d \in settled :
             ~Decodable(d.payload)
             => /\ d.how = "dropped"
                /\ d.io = <<>>
                /\ \A m \in broker' : m.tag # d.tag
                /\ delivery'.tag = d.tag => delivery'.state = "Nacked-Dropped"
       /\ delivery.state = "Nacked-Dropped"
          => delivery'.state \in {"Nacked-Dropped", "Idle"}]_vars

\* a JSON payload without the to field was dropped by a worker in perform mode
C9_Witness ==
    /\ delivery.state = "Nacked-Dropped"
    /\ delivery.perform
    /\ delivery.payload.json
    /\ ~Decodable(delivery.payload)
    /\ io = <<>>
    /\ \E d \in settled : d.tag = delivery.tag /\ d.how = "dropped"

\* C10: a message leaves the broker as Acked only after an execution of
\* send_email returned success (in perform mode: after the SMTP send); an SMTP
\* connect or send failure ends in Nacked-Requeued with the message still in
\* the broker, marked for redelivery; one execution makes at most one
\* connection attempt.
C10_AckOnlyOnSuccess ==
    /\ \A d \in settled :
          d.how = "acked"
          => /\ d.result = "Ok"
             /\ d.perform => (d.io # <<>> /\ d.io[Len(d.io)] = "smtp_send")
    /\ delivery.state = "Acked"
       => /\ delivery.result = "Ok"
          /\ delivery.perform => Count(io, "smtp_send") = 1
    /\ (/\ delivery.state \in Terminal
        /\ delivery.perform
        /\ delivery.fault \in {"connect", "send"})
       => /\ delivery.state = "Nacked-Requeued"
          /\ Count(io, "smtp_send") = 0
    /\ delivery.state = "Nacked-Requeued"
       => /\ \E m \in broker : m.tag = delivery.tag /\ m.redelivered
          /\ \A d \in settled : d.tag # delivery.tag
    /\ Count(io, "smtp_connect") <= 1
    /\ \A m \in broker : \A d \in settled : m.tag # d.tag

\* a message requeued after an SMTP failure was redelivered, sent and acked
C10_Witness ==
    /\ delivery.state = "Acked"
    /\ delivery.redelivered
    /\ delivery.perform
    /\ Count(io, "smtp_send") = 1
    /\ \E d \in settled : d.tag = delivery.tag /\ d.how = "acked"

(***************************************************************************)
(* Claims: storage errors in the authorization check                       *)
(***************************************************************************)
\* C11: when the policy store cannot be read during the check, can_view and
\* can_edit fail with the storage error: they return neither Ok nor
\* Forbidden.
C11_StorageErrorPropagated ==
    (resp.op \in {"can_view", "can_edit"} /\ ~store.readable)
    => resp.result = "storage error"

\* start-up followed by requests
BootNext ==
    \/ Boot
    \/ UseContext
SpecBoot == InitBoot /\ [][BootNext]_vars

(***************************************************************************)
(* Claims: the life of a delivery                                          *)
(***************************************************************************)
DeliverySteps ==
    {<<"Idle", "Received">>, <<"Received", "Decoding">>,
     <<"Decoding", "Executing">>, <<"Decoding", "Nacked-Dropped">>,
     <<"Executing", "Acked">>, <<"Executing", "Nacked-Requeued">>,
     <<"Executing", "Nacked-Dropped">>,
     <<"Acked", "Idle">>, <<"Nacked-Requeued", "Idle">>,
     <<"Nacked-Dropped", "Idle">>}

\* C12: a delivery moves Received -> Decoding -> Executing in that order and
\* ends in one of Acked, Nacked-Requeued, Nacked-Dropped; Executing is never
\* left for anything but one of these outcomes, and every delivery that was
\* received, and every execution that began, reaches its outcome.
C12_DeliveryRunsToOutcome ==
    /\ [][/\ delivery'.state # delivery.state
             => <<delivery.state, delivery'.state>> \in DeliverySteps
          /\ (delivery.state \notin Terminal \cup {"Idle"})
             => /\ delivery'.tag = delivery.tag
                /\ delivery'.payload = delivery.payload
                /\ delivery'.perform = delivery.perform]_vars
    /\ (delivery.state = "Received") ~> (delivery.state \in Terminal)
    /\ (delivery.state = "Executing") ~> (delivery.state \in Terminal)

\* a redelivered message went through Executing and reached an outcome
C12_Witness ==
    /\ delivery.state \in Terminal
    /\ delivery.email # NoEmail
    /\ delivery.redelivered
    /\ delivery.perform
    /\ io # <<>>

(***************************************************************************)
(* Claims: start-up                                                        *)
(***************************************************************************)
Misconfigured(c) ==
    \/ c.postgresql = "None"
    \/ c.redis = "None"
    \/ c.rabbitmq = "None"
    \/ ~base64_decode(c.secret_key).ok
    \/ Len(base64_decode(c.secret_key).bytes) # KEYBYTES

\* C13: once Context::new has returned, a configuration without postgresql,
\* without redis, without rabbitmq, or with a secret key that is not base64 or
\* that the encryptor refuses, has produced an error and no context (none of
\* the handles exists); and no request on a built context meets a
\* configuration error.
C13_ConfigErrorsAtStart ==
    /\ (ctx.status # "Unbuilt" /\ Misconfigured(cfg))
       => /\ ctx.status = "Err"
          /\ \A part \in CtxParts : ctx[part] = "-"
    /\ resp.op \in CtxParts => resp.result = "ok"

\* every provider is present and the key is base64, but of the wrong length:
\* the encryptor refused it at start
C13_Witness ==
    /\ ctx.status = "Err"
    /\ ctx.err = "security"
    /\ cfg.rabbitmq = "Some"
    /\ base64_decode(cfg.secret_key).ok

(***************************************************************************)
(* Claims: who may read members                                            *)
(***************************************************************************)
EitherAlternative(user) ==
    \/ can(policies, today, user, Admin, None)
    \/ can(policies, today, user, Manager, caring_NAME)

\* C14: can_view is Ok exactly when the user can Admin on no resource or can
\* Manager on the caring resource, whichever is tried first, and is Forbidden
\* otherwise; a Show or list call that reached can_view without either
\* alternative returns Forbidden and has not run its select on members, and
\* with one of them it has.
C14_CanViewEitherAlternative ==
    /\ \A u \in Users :
          /\ can_view(policies, today, u) = "ok" <=> EitherAlternative(u)
          /\ ~EitherAlternative(u) => can_view(policies, today, u) = Forbidden
    /\ (/\ resp.op \in {"show", "list"}
        /\ resp.user # Anonymous
        /\ resp.result # "invalid")
       => IF EitherAlternative(resp.user)
          THEN resp.queried /\ resp.result \in {"ok", "not found"}
          ELSE ~resp.queried /\ resp.result = Forbidden

\* a manager of another resource asks for a member that exists
C14_Witness ==
    /\ resp.op = "show"
    /\ resp.result = Forbidden
    /\ ~resp.queried
    /\ WithId(members, resp.id) # {}
    /\ \E it \in policies : it.user_id = resp.user /\ it.role = Manager

\* a manager of the caring resource, who is no administrator, lists members
C14_SecondAlternative ==
    /\ resp.op = "list"
    /\ resp.result = "ok"
    /\ resp.queried
    /\ ~can(policies, today, resp.user, Admin, None)

(***************************************************************************)
(* Claims: failures inside Executing                                       *)
(***************************************************************************)
ErrValues == {"Err(decode)", "Err(setting)", "Err(attachment)", "Err(build)",
              "Err(transport)", "Err(hostname)", "Err(smtp)"}
FailsBeforeSend(d) ==
    \/ d.fault \in {"setting", "build", "transport"}
    \/ d.fault = "attachment" /\ d.email.attachments # {}

\* C15: in perform mode, when reading the site.smtp setting, reading an
\* attachment, building the message or building the transport fails,
\* send_email returns an error value (it does not panic), nothing was handed
\* to the SMTP server, and the delivery is negatively acknowledged.
C15_FailureBeforeSendIsError ==
    (/\ delivery.state \in Terminal
     /\ delivery.perform
     /\ delivery.email # NoEmail
     /\ FailsBeforeSend(delivery))
    => /\ delivery.result \in ErrValues \ {"Err(decode)", "Err(smtp)"}
       /\ Count(io, "smtp_send") = 0
       /\ Count(io, "smtp_connect") = 0
       /\ delivery.state \in {"Nacked-Requeued", "Nacked-Dropped"}

\* an attachment of a decoded email could not be read
C15_Witness ==
    /\ delivery.state \in Terminal
    /\ delivery.perform
    /\ delivery.fault = "attachment"
    /\ delivery.email.attachments # {}
    /\ delivery.result = "Err(attachment)"
    /\ Count(io, "file_read") > 0

(***************************************************************************)
(* Claims: nick names                                                      *)
(***************************************************************************)
\* C16: in every state of the members table, also after concurrent Create
\* calls, no two member rows have the same nick_name.
C16_NickNameUnique ==
    \A m1 \in members, m2 \in members :
        m1.nick_name = m2.nick_name => m1 = m2

====
